---- MODULE Spec2Model ----
(***************************************************************************)
(* Model of src/analysis.py: detect_eddies (thresholding, connected        *)
(* component labeling, size filter, per-region statistics) and             *)
(* calculate_chlorophyll_anomaly (field minus baseline).                   *)
(*                                                                         *)
(* Numbers are exact rationals <<n, d>> with d > 0 in lowest terms; the    *)
(* floating point NaN (a missing value) is <<0, 0>>.  Floating point       *)
(* rounding is not modelled.                                               *)
(***************************************************************************)
EXTENDS Integers, Sequences, FiniteSets, TLC

\* ------------------------------------------------------------------ bounds
MaxCells == 6        \* an SLA field of Spec has at most this many cells
MaxMinSize == 2      \* min_size ranges over -1 .. MaxMinSize and the default
GridSide == 10       \* side of the square grid of SpecBlock
MaxBlock == 3        \* largest block side of SpecBlock
MaxChlCells == 4     \* a chlorophyll field has at most this many cells

\* --------------------------------------------------------------- rationals
NaN == <<0, 0>>
IsNaN(a) == a[2] = 0
Abs(n) == IF n < 0 THEN 0 - n ELSE n

RECURSIVE GCD(_, _)
GCD(a, b) == IF b = 0 THEN a ELSE GCD(b, a % b)

\* n / d in lowest terms with a positive denominator; x / 0 is NaN
Frac(n, d) ==
    IF d = 0 THEN NaN
    ELSE LET s == IF d < 0 THEN 0 - 1 ELSE 1
             g == GCD(Abs(n), Abs(d))
         IN  <<(s * n) \div g, (s * d) \div g>>

Num(k) == <<k, 1>>
Add(a, b) == IF IsNaN(a) \/ IsNaN(b) THEN NaN
             ELSE Frac(a[1] * b[2] + b[1] * a[2], a[2] * b[2])
Sub(a, b) == IF IsNaN(a) \/ IsNaN(b) THEN NaN
             ELSE Frac(a[1] * b[2] - b[1] * a[2], a[2] * b[2])
\* a > b; any comparison with NaN is false
Gt(a, b) == ~IsNaN(a) /\ ~IsNaN(b) /\ a[1] * b[2] > b[1] * a[2]

\* the sum of f over the set S
RECURSIVE SumOver(_, _)
SumOver(S, f) ==
    IF S = {} THEN Num(0)
    ELSE LET c == CHOOSE x \in S : TRUE
         IN  Add(f[c], SumOver(S \ {c}, f))

RECURSIVE SumInt(_, _)
SumInt(S, k) ==
    IF S = {} THEN 0
    ELSE LET c == CHOOSE x \in S : TRUE
         IN  c[k] + SumInt(S \ {c}, k)

\* mean(skipna=True) of f over the cells S: missing values are left out, and
\* the mean of no value at all is NaN
NanMean(S, f) ==
    LET D == {c \in S : ~IsNaN(f[c])}
        s == SumOver(D, f)
    IN  IF D = {} THEN NaN ELSE Frac(s[1], s[2] * Cardinality(D))

\* ----------------------------------------------------------- detect_eddies
threshold_default == Frac(1, 20)
min_size_default == 5

\* (mutant) the mask taken with >= : a cell equal to the threshold qualifies
MaskAtLeast(f, t) == [c \in DOMAIN f |-> ~IsNaN(f[c]) /\ ~Gt(t, f[c])]

\* mask = sla > threshold
Mask(f, t) == [c \in DOMAIN f |-> Gt(f[c], t)]

\* C (raster) order of two cells of a 2-D array
Before(a, b) == a[1] < b[1] \/ (a[1] = b[1] /\ a[2] < b[2])

\* the default structuring element of ndimage.label: neighbours along one axis
Adjacent(a, b) ==
    \/ a[1] = b[1] /\ (a[2] - b[2] = 1 \/ b[2] - a[2] = 1)
    \/ a[2] = b[2] /\ (a[1] - b[1] = 1 \/ b[1] - a[1] = 1)

\* the cells of M connected to S
RECURSIVE Flood(_, _)
Flood(S, M) ==
    LET N == {d \in M \ S : \E s \in S : Adjacent(s, d)}
    IN  IF N = {} THEN S ELSE Flood(S \cup N, M)

FirstCell(M) == CHOOSE c \in M : \A d \in M : d = c \/ Before(c, d)

RECURSIVE LabelFrom(_, _, _)
LabelFrom(M, lab, n) ==
    IF M = {} THEN [labeled |-> lab, num_features |-> n]
    ELSE LET comp == Flood({FirstCell(M)}, M)
         IN  LabelFrom(M \ comp,
                       [c \in DOMAIN lab |-> IF c \in comp THEN n + 1 ELSE lab[c]],
                       n + 1)

\* labeled, num_features = ndimage.label(mask): components are numbered
\* 1, 2, ... in the raster order of their first cell; background is 0
label(mask) ==
    LabelFrom({c \in DOMAIN mask : mask[c]}, [c \in DOMAIN mask |-> 0], 0)

\* (mutant) the sizes taken over range(0, num_features): off by one label
SizesFromZero(mask, labeled, n) ==
    [i \in 1..n |-> Cardinality({c \in DOMAIN labeled : labeled[c] = i - 1 /\ mask[c]})]

\* sizes = ndimage.sum(mask, labeled, range(1, num_features + 1))
Sizes(mask, labeled, n) ==
    [i \in 1..n |-> Cardinality({c \in DOMAIN labeled : labeled[c] = i /\ mask[c]})]

\* (mutant) the size filter with > : a component of exactly min_size is dropped
ValidStrict(sizes, m) == [i \in DOMAIN sizes |-> sizes[i] > m]

\* (mutant) the size filter reversed: components of at most min_size are kept
ValidAtMost(sizes, m) == [i \in DOMAIN sizes |-> sizes[i] <= m]

\* valid = sizes >= min_size
Valid(sizes, m) == [i \in DOMAIN sizes |-> sizes[i] >= m]

\* (mutant) the survivors renumbered 1, 2, ... in the order of their labels
EddyLabelsCompact(labeled, valid) ==
    LET keep == {i \in DOMAIN valid : valid[i]}
    IN  [c \in DOMAIN labeled |->
            IF labeled[c] \in keep
            THEN Cardinality({i \in keep : i <= labeled[c]})
            ELSE 0]

\* eddy_labels = xr.where(np.isin(labeled, np.where(valid)[0] + 1), labeled, 0)
EddyLabels(labeled, valid) ==
    LET keep == {i \in DOMAIN valid : valid[i]}
    IN  [c \in DOMAIN labeled |-> IF labeled[c] \in keep THEN labeled[c] ELSE 0]

\* (mutant) the centroid truncated to whole indexes
CentroidFloor(labeled, i) ==
    LET P == {c \in DOMAIN labeled : labeled[c] = i}
    IN  <<Num(SumInt(P, 1) \div Cardinality(P)), Num(SumInt(P, 2) \div Cardinality(P))>>

\* positions = np.argwhere(labeled == i); centroid = positions.mean(axis=0)
Centroid(labeled, i) ==
    LET P == {c \in DOMAIN labeled : labeled[c] = i}
    IN  <<Frac(SumInt(P, 1), Cardinality(P)), Frac(SumInt(P, 2), Cardinality(P))>>

\* intensity = sla.where(labeled == i).mean().values
Intensity(f, labeled, i) ==
    NanMean({c \in DOMAIN labeled : labeled[c] = i}, f)

\* (mutant) a record for every component, the test of valid[i - 1] left out
EddyPropertiesUnfiltered(f, labeled, sizes, valid) ==
    [i \in DOMAIN valid |->
        [centroid |-> Centroid(labeled, i),
         area |-> sizes[i],
         intensity |-> Intensity(f, labeled, i)]]

\* the loop over range(1, num_features + 1) that fills eddy_properties
EddyProperties(f, labeled, sizes, valid) ==
    [i \in {j \in DOMAIN valid : valid[j]} |->
        [centroid |-> Centroid(labeled, i),
         area |-> sizes[i],
         intensity |-> Intensity(f, labeled, i)]]

\* the steps that do not read min_size: mask, labeling and component sizes
Components(f, t) ==
    LET mask == Mask(f, t)
        l == label(mask)
    IN  [labeled |-> l.labeled,
         num_features |-> l.num_features,
         sizes |-> Sizes(mask, l.labeled, l.num_features)]

\* the steps that read min_size: the size filter, the output label map and
\* the records of the survivors
FilterBySize(f, comp, m) ==
    LET valid == Valid(comp.sizes, m)
    IN  [eddy_labels |-> EddyLabels(comp.labeled, valid),
         eddy_properties |-> EddyProperties(f, comp.labeled, comp.sizes, valid)]

detect_eddies(f, t, m) == FilterBySize(f, Components(f, t), m)

\* ------------------------------------------- calculate_chlorophyll_anomaly
\* A labeled array (xarray.DataArray): coords maps each dimension name to its
\* index labels, data maps each index (a record dimension -> label) to a value.
Indexes(coords) ==
    {ix \in [DOMAIN coords -> UNION {coords[d] : d \in DOMAIN coords}] :
        \A d \in DOMAIN coords : ix[d] \in coords[d]}

Restrict(ix, dims) == [d \in dims |-> ix[d]]

\* the dimensions of an array with their lengths
Shape(a) == [d \in DOMAIN a.coords |-> Cardinality(a.coords[d])]

\* (mutant) chl.mean(skipna=True), the dim argument left out: one mean over
\* every cell, an array without dimensions
MeanAllDims(a) ==
    [coords |-> <<>>,
     data |-> [ix \in {<<>>} |-> NanMean(DOMAIN a.data, a.data)]]

\* chl.mean(dim='time', skipna=True)
MeanTime(a) ==
    LET rc == [d \in DOMAIN a.coords \ {"time"} |-> a.coords[d]]
    IN  [coords |-> rc,
         data |-> [ix \in Indexes(rc) |->
                     NanMean({jx \in DOMAIN a.data : Restrict(jx, DOMAIN rc) = ix},
                             a.data)]]

\* a - b of two labeled arrays: dimensions are matched by name, a dimension
\* of one operand only is broadcast, and along a shared dimension only the
\* index labels both operands have are kept (xarray's inner join)
Minus(a, b) ==
    LET da == DOMAIN a.coords
        db == DOMAIN b.coords
        rc == [d \in da \cup db |->
                 IF d \in da /\ d \in db THEN a.coords[d] \cap b.coords[d]
                 ELSE IF d \in da THEN a.coords[d] ELSE b.coords[d]]
    IN  [coords |-> rc,
         data |-> [ix \in Indexes(rc) |->
                     Sub(a.data[Restrict(ix, da)], b.data[Restrict(ix, db)])]]

\* the baseline: the temporal mean when climatology is None (<<>>), else the
\* climatology as it is
Baseline(field, clim) == IF clim = <<>> THEN MeanTime(field) ELSE clim[1]

\* (mutant) the operands exchanged: baseline - chl
anomaly_reversed(field, clim) == Minus(Baseline(field, clim), field)

calculate_chlorophyll_anomaly(field, clim) == Minus(field, Baseline(field, clim))

\* ------------------------------------------------------------------- state
VARIABLES sla, threshold, min_size, eddy_labels, eddy_properties, returned,
          chl, climatology, anomaly

vars == <<sla, threshold, min_size, eddy_labels, eddy_properties, returned,
          chl, climatology, anomaly>>

eddyVars == <<sla, threshold, min_size, eddy_labels, eddy_properties, returned>>
chlVars == <<chl, climatology, anomaly>>

\* 0.05 is the default threshold and 0.10 the anomaly of the documented scenario
Values == {NaN, Frac(1, 20), Frac(1, 10)}
Thresholds == {Num(0), threshold_default, Frac(1, 10)}
MinSizes == ((0 - 1)..MaxMinSize) \cup {min_size_default}
\* the documented scenario asks for the default min_size and for 10
BlockMinSizes == {1, min_size_default, 2 * min_size_default}

Shapes(n) == {s \in (1..n) \X (1..n) : s[1] * s[2] <= n}
Grid(s) == (0..(s[1] - 1)) \X (0..(s[2] - 1))
\* SLA fields of every shape that is at least as wide as high (the transpose
\* of a field has the same components, numbered in another order)
Fields == UNION {[Grid(s) -> Values] : s \in {q \in Shapes(MaxCells) : q[1] <= q[2]}}

\* a field whose only nonzero cells are a k x k block of value v at (r0, c0)
BlockField(r0, c0, k, v) ==
    [c \in Grid(<<GridSide, GridSide>>) |->
        IF c[1] \in r0..(r0 + k - 1) /\ c[2] \in c0..(c0 + k - 1) THEN v ELSE Num(0)]

BlockFields ==
    {BlockField(p[1], p[2], p[3], v) :
        p \in {q \in (0..(GridSide - 1)) \X (0..(GridSide - 1)) \X (1..MaxBlock) :
                 q[1] + q[3] <= GridSide /\ q[2] + q[3] <= GridSide},
        v \in Values \ {NaN}}

\* chlorophyll fields over time x position, labels 1..T and 1..X
ChlCoords == {[time |-> 1..s[1], x |-> 1..s[2]] : s \in Shapes(MaxChlCells)}
Arrays(coords, vals) == {[coords |-> coords, data |-> d] : d \in [Indexes(coords) -> vals]}
ChlFields == UNION {Arrays(c, Values) : c \in ChlCoords}

\* the labels of a supplied baseline along a dimension of the field: the
\* field's own, or as many labels displaced by one; a monthly climatology
\* has a month dimension instead of time
LabelChoices(S) == {S, {l + 1 : l \in S}}
BaseValues == {Num(0), Frac(1, 20)}
ClimCoords(f) ==
    {[x |-> lx] : lx \in LabelChoices(f.coords.x)}
    \cup {[time |-> lt, x |-> lx] :
            lt \in LabelChoices(f.coords.time), lx \in LabelChoices(f.coords.x)}
    \cup {[month |-> f.coords.time, x |-> f.coords.x]}
Climatologies(f) == UNION {Arrays(c, BaseValues) : c \in ClimCoords(f)}

NoEddyCall ==
    /\ sla = <<>>
    /\ threshold = threshold_default
    /\ min_size = min_size_default
    /\ eddy_labels = <<>>
    /\ eddy_properties = <<>>
    /\ returned = FALSE

NoChlCall ==
    /\ chl = <<>>
    /\ climatology = <<>>
    /\ anomaly = <<>>

InitEddy(fields) ==
    /\ sla \in fields
    /\ threshold \in Thresholds
    /\ min_size = min_size_default
    /\ eddy_labels = <<>>
    /\ eddy_properties = <<>>
    /\ returned = FALSE
    /\ NoChlCall

Init == InitEddy(Fields)

InitBlock == InitEddy(BlockFields)

InitAnomaly ==
    /\ chl \in ChlFields
    /\ climatology \in {<<>>} \cup {<<b>> : b \in Climatologies(chl)}
    /\ anomaly = <<>>
    /\ NoEddyCall

\* one call of detect_eddies on the loaded field; the field may be analysed
\* again with another min_size
Call(comp, m) ==
    LET r == FilterBySize(sla, comp, m)
    IN  /\ min_size' = m
        /\ eddy_labels' = r.eddy_labels
        /\ eddy_properties' = r.eddy_properties
        /\ returned' = TRUE
        /\ UNCHANGED <<sla, threshold>>
        /\ UNCHANGED chlVars

DetectEddies ==
    LET comp == Components(sla, threshold)
    IN  \E m \in MinSizes : Call(comp, m)

DetectEddiesBlock ==
    LET comp == Components(sla, threshold)
    IN  \E m \in BlockMinSizes : Call(comp, m)

CalculateChlorophyllAnomaly ==
    /\ anomaly = <<>>
    /\ anomaly' = <<calculate_chlorophyll_anomaly(chl, climatology)>>
    /\ UNCHANGED <<chl, climatology>>
    /\ UNCHANGED eddyVars

Next == DetectEddies

NextBlock == DetectEddiesBlock

NextAnomaly == CalculateChlorophyllAnomaly

Spec == Init /\ [][Next]_vars

SpecBlock == InitBlock /\ [][NextBlock]_vars

SpecAnomaly == InitAnomaly /\ [][NextAnomaly]_vars

\* ------------------------------------------------------------ properties
Called == returned

\* the cells strictly above the threshold, and the component of one of them
Above == {c \in DOMAIN sla : Gt(sla[c], threshold)}
ComponentOf(c) == Flood({c}, Above)

\* what the labeling step assigned
Labeled == label(Mask(sla, threshold)).labeled
NumFeatures == label(Mask(sla, threshold)).num_features

Keys == DOMAIN eddy_properties
CellsOf(i) == {c \in DOMAIN eddy_labels : eddy_labels[c] = i}

\* C1: the nonzero values of the returned label map are exactly the keys of
\* the returned statistics mapping.
C1_LabelsAreKeys ==
    Called => {eddy_labels[c] : c \in DOMAIN eddy_labels} \ {0} = Keys

C1_Witness ==
    /\ Called
    /\ Keys # {}
    /\ Cardinality(Keys) < NumFeatures

\* C2: a component has a record, and keeps its cells nonzero in the label
\* map, exactly when its cell count is >= min_size; so with min_size <= 0
\* every component survives.
C2_SizeFilter ==
    Called =>
        LET L == Labeled
        IN  /\ \A c \in Above :
                 LET n == Cardinality(ComponentOf(c))
                 IN  /\ (L[c] \in Keys) <=> (n >= min_size)
                     /\ (eddy_labels[c] # 0) <=> (n >= min_size)
            /\ min_size <= 0 => Keys = {L[c] : c \in Above}

C2_Witness ==
    /\ Called
    /\ \E c \in Above : Cardinality(ComponentOf(c)) = min_size /\ eddy_labels[c] # 0
    /\ \E c \in Above : Cardinality(ComponentOf(c)) < min_size /\ eddy_labels[c] = 0

\* C3: the area of a record is the number of mask cells carrying its label,
\* which is the number of cells carrying it in the returned label map.
C3_AreaIsCellCount ==
    Called =>
        LET L == Labeled
        IN  \A i \in Keys :
                /\ eddy_properties[i].area = Cardinality({c \in Above : L[c] = i})
                /\ eddy_properties[i].area = Cardinality(CellsOf(i))

C3_Witness ==
    /\ Called
    /\ \E i, j \in Keys : eddy_properties[i].area = 1 /\ eddy_properties[j].area > 2

\* C4: on one field and threshold, a call with a min_size at least as large as
\* the previous call's returns no more regions than the previous call.
C4_Monotone ==
    [][(Called /\ min_size <= min_size')
          => Cardinality(DOMAIN eddy_properties') <= Cardinality(Keys)]_vars

C4_Witness ==
    /\ Called
    /\ Keys # {}
    /\ \E m \in MinSizes :
         /\ m < min_size
         /\ Cardinality(DOMAIN detect_eddies(sla, threshold, m).eddy_properties)
              > Cardinality(Keys)

\* C5: when no cell is strictly above the threshold, or no component reaches
\* min_size, the statistics mapping is empty and the label map is all zero.
C5_NothingFound ==
    (/\ Called
     /\ \/ Above = {}
        \/ \A c \in Above : Cardinality(ComponentOf(c)) < min_size)
    => /\ Keys = {}
       /\ \A c \in DOMAIN eddy_labels : eddy_labels[c] = 0
       /\ DOMAIN eddy_labels = DOMAIN sla

C5_Witness ==
    /\ Called
    /\ Above = {}
    /\ \E c \in DOMAIN sla : sla[c] = threshold
    /\ Keys = {}

\* C10: no relabeling: every cell of the label map holds 0 or the integer the
\* labeling step gave it, and a key's cells are all the cells the labeling
\* step gave that integer.
C10_NoRelabeling ==
    Called =>
        LET L == Labeled
        IN  /\ DOMAIN eddy_labels = DOMAIN sla
            /\ \A c \in DOMAIN sla : eddy_labels[c] \in {0, L[c]}
            /\ \A i \in Keys : CellsOf(i) = {c \in DOMAIN sla : L[c] = i}

C10_Witness ==
    /\ Called
    /\ 1 \notin Keys
    /\ 2 \in Keys

\* the smallest and the largest member of a set of integers
Least(S) == CHOOSE n \in S : \A k \in S : n <= k
Greatest(S) == CHOOSE n \in S : \A k \in S : n >= k

\* the cells above the threshold are one k x k block of one value
BlockRow == Least({c[1] : c \in Above})
BlockCol == Least({c[2] : c \in Above})
BlockSide == Greatest({c[1] : c \in Above}) - BlockRow + 1
BlockValue == sla[CHOOSE c \in Above : TRUE]
IsBlock ==
    /\ Above # {}
    /\ Above = (BlockRow..(BlockRow + BlockSide - 1))
                 \X (BlockCol..(BlockCol + BlockSide - 1))
    /\ \A c \in Above : sla[c] = BlockValue

\* C6: when the cells above the threshold are one k x k block of value v, a
\* call with min_size <= k*k returns exactly one region, of area k*k, with
\* the centre of the block as centroid and v as intensity; a call with
\* min_size > k*k returns no region and an all-zero label map.
C6_SingleBlock ==
    (Called /\ IsBlock) =>
        IF min_size <= BlockSide * BlockSide
        THEN /\ Cardinality(Keys) = 1
             /\ \A i \in Keys :
                  /\ eddy_properties[i].area = BlockSide * BlockSide
                  /\ eddy_properties[i].centroid
                       = <<Frac(2 * BlockRow + BlockSide - 1, 2),
                           Frac(2 * BlockCol + BlockSide - 1, 2)>>
                  /\ eddy_properties[i].intensity = BlockValue
                  /\ CellsOf(i) = Above
        ELSE /\ Keys = {}
             /\ \A c \in DOMAIN eddy_labels : eddy_labels[c] = 0

\* the documented scenario: 10 x 10 grid, 3 x 3 block of 0.10, threshold 0.05,
\* min_size 5
C6_Witness ==
    /\ Called
    /\ IsBlock
    /\ BlockSide = 3
    /\ BlockValue = Frac(1, 10)
    /\ threshold = Frac(1, 20)
    /\ min_size = 5
    /\ Keys = {1}
    /\ eddy_properties[1].area = 9
    /\ eddy_properties[1].centroid = <<Num(BlockRow + 1), Num(BlockCol + 1)>>

\* ---------------------------------------------------------------- anomaly
Returned == anomaly # <<>>
Supplied == climatology # <<>>

\* a supplied baseline defined on the cells of the field: its dimensions are
\* dimensions of the field, with the field's index labels
OnFieldCells(b) ==
    /\ DOMAIN b.coords \subseteq DOMAIN chl.coords
    /\ \A d \in DOMAIN b.coords : b.coords[d] = chl.coords[d]

\* C7: with a supplied baseline defined on the field's cells (all of the
\* field's dimensions, or all but time), the anomaly at every cell of the
\* field is the field value minus the baseline value at that cell, the
\* baseline value of a position being used for every time step when the
\* baseline has no time dimension.
C7_DirectSubtraction ==
    (Returned /\ Supplied /\ OnFieldCells(climatology[1])) =>
        LET b == climatology[1]
            a == anomaly[1]
        IN  /\ DOMAIN a.data = DOMAIN chl.data
            /\ \A ix \in DOMAIN chl.data :
                 a.data[ix] = Sub(chl.data[ix], b.data[Restrict(ix, DOMAIN b.coords)])

C7_Witness ==
    /\ Returned
    /\ Supplied
    /\ OnFieldCells(climatology[1])
    /\ DOMAIN climatology[1].coords = {"x"}
    /\ Cardinality(chl.coords.time) > 1
    /\ \E ix, jx \in DOMAIN anomaly[1].data :
         /\ ~IsNaN(anomaly[1].data[ix])
         /\ ~IsNaN(anomaly[1].data[jx])
         /\ anomaly[1].data[ix] # anomaly[1].data[jx]

\* every cell holds a value, and a position holds the same value at every
\* time step
ConstantOverTime ==
    \A ix, jx \in DOMAIN chl.data :
        /\ ~IsNaN(chl.data[ix])
        /\ ix.x = jx.x => chl.data[ix] = chl.data[jx]

\* C8: with no baseline supplied, a field that is constant over time has an
\* anomaly of zero at every cell of every time slice.
C8_ConstantFieldZero ==
    (Returned /\ ~Supplied /\ ConstantOverTime) =>
        /\ DOMAIN anomaly[1].data = DOMAIN chl.data
        /\ \A ix \in DOMAIN chl.data : anomaly[1].data[ix] = Num(0)

C8_Witness ==
    /\ Returned
    /\ ~Supplied
    /\ ConstantOverTime
    /\ Cardinality(chl.coords.time) > 1
    /\ \E ix, jx \in DOMAIN chl.data : chl.data[ix] # chl.data[jx]

\* C9: the anomaly has the dimensions of the field, with the same lengths,
\* whether the baseline is computed or supplied.
C9_SameShape == Returned => Shape(anomaly[1]) = Shape(chl)

====
